---- MODULE Spec2Model ----
(***************************************************************************)
(* niri-wselector: the window / workspace selector of                      *)
(* src/niri_wselector/__main__.py as a state machine.                      *)
(*                                                                         *)
(* A run fetches a snapshot of the compositor (NiriState.new), turns the   *)
(* command line into window filters, builds a WindowHandler or a           *)
(* WorkspaceHandler (filter, sort, render labels), hands the labels to     *)
(* fuzzel and maps the returned index back to `niri msg action` calls.     *)
(*                                                                         *)
(* Spec         the whole of main(), command line included.                *)
(* SessionSpec  the handlers on their own: the constructor arguments       *)
(*              (snapshot, select_focused, window_filters) are drawn       *)
(*              directly, then main() from line 379 on.                    *)
(***************************************************************************)
EXTENDS Integers, Sequences, FiniteSets, TLC

VARIABLES
    args,            \* argparse namespace (main, line 312)
    source,          \* what the compositor answers to `niri msg --json ...`
    niri,            \* the NiriState in use (main, lines 314 and 329)
    window_filters,  \* main's window_filters list (lines 318-370)
    handler,         \* the WindowHandler / WorkspaceHandler, NoHandler before
    fuzzel,          \* the picker: what it was given and what it answered
    calls,           \* `niri msg action ...` commands issued, in order
    pc,              \* position of the run
    exit             \* how the process ended

vars == <<args, source, niri, window_filters, handler, fuzzel, calls, pc, exit>>

----------------------------------------------------------------------------
(* Bounds of the model.                                                    *)

\* Windows in a snapshot offered to a window session or to main(): 0..NumWin.
NumWin == 2
\* Workspaces per output in a snapshot offered to a workspace session
\* (idx runs 1..MaxPerOutput on every output).  Snapshots with windows placed
\* freely hold one workspace per output at most.
MaxPerOutput == 2

\* Python's None.  No text of the model is this string.
None == "None"

\* Output names, in Python's string order (str.__lt__).
OutputNames == <<"DP-1", "DP-2">>
\* Where a workspace can live: no output assigned, or one of the outputs.
OutputChoices == {None} \cup {OutputNames[i] : i \in 1..Len(OutputNames)}

AppIds == <<"foo", "bar">>

\* sys.maxsize is 2^63 - 1; TLC's integers are 32 bits wide.  MIN and MAX are
\* only ever compared with each other, with MIN + 1, and with -2, -1 and 0, so
\* the 32-bit extremes order exactly as the 64-bit ones do.
MIN == -2147483647
MAX == 2147483646

----------------------------------------------------------------------------
(* Records: WindowEntryDict, WorkspaceEntryDict (lines 48-64).             *)
(* A record is a function on its keys; a NotRequired key may be missing.   *)

OutputIndex(o) ==
    IF o = None THEN 0 ELSE CHOOSE i \in 1..Len(OutputNames) : OutputNames[i] = o

WorkspaceIdOf(o, j) == 10 * (OutputIndex(o) + 1) + j

\* The first workspace of DP-1 carries a name; the others are unnamed.
WorkspaceNameOf(o, j) == IF o = "DP-1" /\ j = 1 THEN "web" ELSE None

WorkspaceEntryDict(o, j, active, focused, awid) ==
    LET name == WorkspaceNameOf(o, j)
        keys == {"id", "idx", "is_active", "is_focused", "active_window_id"}
                  \cup (IF o = None THEN {} ELSE {"output"})
                  \cup (IF name = None THEN {} ELSE {"name"})
    IN  [k \in keys |->
            CASE k = "id" -> WorkspaceIdOf(o, j)
              [] k = "idx" -> j
              [] k = "name" -> name
              [] k = "output" -> o
              [] k = "is_active" -> active
              [] k = "is_focused" -> focused
              [] k = "active_window_id" -> awid]

WindowEntryDict(i, wsid, focused) ==
    [id |-> i,
     title |-> "T" \o ToString(i),
     app_id |-> AppIds[((i - 1) % Len(AppIds)) + 1],
     workspace_id |-> wsid,
     is_focused |-> focused,
     is_floating |-> FALSE]

\* dict.get(key): None for a missing key.
Get(item, key) == IF key \in DOMAIN item THEN item[key] ELSE None

----------------------------------------------------------------------------
(* Snapshots the compositor can answer with (the data model of the         *)
(* TypedDicts): ids are unique, idx is unique per output, at most one      *)
(* workspace per output is active, at most one workspace and at most one   *)
(* window is focused, every window's workspace_id names a workspace.       *)
(* The two lists come from two separate `niri msg` calls (lines 74-77), so *)
(* the focused window need not sit on the focused workspace.               *)

Range(s) == {s[i] : i \in 1..Len(s)}

\* The values of a set of pairs <<rank, value>>, by ascending rank.
RECURSIVE SeqOfRanked(_)
SeqOfRanked(S) ==
    IF S = {} THEN <<>>
    ELSE LET m == CHOOSE x \in S : \A y \in S : x[1] <= y[1]
         IN  <<m[2]>> \o SeqOfRanked(S \ {m})

\* A layout of workspaces with at most cap of them per output.  count[o]:
\* workspaces on output o; active[o]: idx of the active one, 0 for none;
\* focused: id of the focused workspace (an active one), 0 for none.
Layouts(cap) ==
    {l \in [count : [OutputChoices -> 0..cap],
            active : [OutputChoices -> 0..cap],
            focused : {0} \cup {WorkspaceIdOf(o, j) : o \in OutputChoices, j \in 1..cap}] :
        /\ \A o \in OutputChoices : l.active[o] <= l.count[o]
        /\ l.focused # 0 =>
             \E o \in OutputChoices :
                l.active[o] > 0 /\ l.focused = WorkspaceIdOf(o, l.active[o])}

LayoutIds(l) ==
    UNION {{WorkspaceIdOf(o, j) : j \in 1..l.count[o]} : o \in OutputChoices}

\* Window i sits on workspace place[i]; window `focus` is focused (0: none).
WindowsOf(place, focus) ==
    [i \in 1..Len(place) |-> WindowEntryDict(i, place[i], i = focus)]

ActiveWindowOf(place, wsid) ==
    IF \E i \in 1..Len(place) : place[i] = wsid
    THEN CHOOSE i \in 1..Len(place) :
            place[i] = wsid /\ \A k \in 1..Len(place) : place[k] = wsid => i <= k
    ELSE 0

\* The workspaces list, by id; active_window_id is the first window of the
\* workspace, or 0 (the id of no window) for an empty workspace.
WorkspacesOf(l, place) ==
    SeqOfRanked(
        UNION {{<<WorkspaceIdOf(o, j),
                  WorkspaceEntryDict(o, j, l.active[o] = j,
                                     l.focused = WorkspaceIdOf(o, j),
                                     ActiveWindowOf(place, WorkspaceIdOf(o, j)))>> :
                  j \in 1..l.count[o]} : o \in OutputChoices})

SnapshotOf(l, place, focus) ==
    [windows |-> WindowsOf(place, focus), workspaces |-> WorkspacesOf(l, place)]

\* Snapshots for window sessions: up to NumWin windows, placed freely on the
\* workspaces, each output (and the no-output group) holding at most one
\* workspace.
WindowSnapshots ==
    UNION {
        UNION {
            {SnapshotOf(l, place, focus) : focus \in 0..Len(place)} :
            place \in UNION {[1..m -> LayoutIds(l)] : m \in 0..NumWin}} :
        l \in Layouts(1)}

\* Snapshots for workspace sessions: up to MaxPerOutput workspaces per
\* output; one window, on the first workspace, focused when that workspace
\* is (windows only lend their titles to workspace labels).
WorkspaceSnapshots ==
    {SnapshotOf(l,
                IF LayoutIds(l) = {} THEN <<>>
                ELSE <<CHOOSE i \in LayoutIds(l) : \A k \in LayoutIds(l) : i <= k>>,
                IF l.focused # 0 /\ \A k \in LayoutIds(l) : l.focused <= k
                THEN 1 ELSE 0) :
        l \in Layouts(MaxPerOutput)}

----------------------------------------------------------------------------
(* NiriState (lines 67-96).  An optional record is a sequence of length at *)
(* most one: <<>> is Python's None.                                        *)

NiriState(windows, workspaces) == [windows |-> windows, workspaces |-> workspaces]

\* Mutant of FirstFocused: next(iter(items), None), the focus test lost.
FirstFocused_AnyItem(items) == IF items = <<>> THEN <<>> ELSE <<items[1]>>

\* next((w for w in items if w["is_focused"]), None)
FirstFocused(items) ==
    IF \E i \in 1..Len(items) : items[i]["is_focused"]
    THEN <<items[CHOOSE i \in 1..Len(items) :
                    /\ items[i]["is_focused"]
                    /\ \A k \in 1..(i - 1) : ~items[k]["is_focused"]]>>
    ELSE <<>>

focused_window(n) == FirstFocused(n.windows)

focused_workspace(n) == FirstFocused(n.workspaces)

focused_output(n) ==
    IF focused_workspace(n) # <<>> THEN Get(focused_workspace(n)[1], "output") ELSE None

----------------------------------------------------------------------------
(* Matchers and the filter pipeline (lines 99-130).                        *)
(* Python values met by a matcher carry their type: a JSON literal of the  *)
(* command line may be text, a number, true/false or null, and == across   *)
(* types is False, except that bool is an int (True == 1).                 *)

PyStr(s) == <<"str", s>>
PyInt(i) == <<"int", i>>
PyBool(b) == <<"int", IF b THEN 1 ELSE 0>>
PyNone == <<"NoneType">>

BoolKeys == {"is_focused", "is_active", "is_floating"}
IntKeys == {"id", "idx", "workspace_id", "active_window_id"}

\* item.get(key) as a Python value.
PyGet(item, key) ==
    IF key \notin DOMAIN item THEN PyNone
    ELSE IF key \in BoolKeys THEN PyBool(item[key])
    ELSE IF key \in IntKeys THEN PyInt(item[key])
    ELSE PyStr(item[key])

DictKeyMatcher(key, value) == [cls |-> "DictKeyMatcher", key |-> key, value |-> value]

DictKeyAnyMatcher(key, values) ==
    [cls |-> "DictKeyAnyMatcher", key |-> key, values |-> values]

matches(rule, item) ==
    IF rule.cls = "DictKeyMatcher"
    THEN PyGet(item, rule.key) = rule.value
    ELSE \E i \in 1..Len(rule.values) : PyGet(item, rule.key) = rule.values[i]

\* Mutant of _filter_item_matches: any() in place of all().
_filter_item_matches_Any(filters, item) ==
    \E k \in 1..Len(filters) : matches(filters[k], item)

\* all(rule.matches(item) for rule in filters): stops at the first failure.
RECURSIVE _filter_item_matches(_, _)
_filter_item_matches(filters, item) ==
    IF filters = <<>> THEN TRUE
    ELSE IF matches(Head(filters), item)
         THEN _filter_item_matches(Tail(filters), item)
         ELSE FALSE

RECURSIVE filter_by_dict(_, _)
filter_by_dict(d, filters) ==
    IF d = <<>> THEN <<>>
    ELSE (IF _filter_item_matches(filters, Head(d)) THEN <<Head(d)>> ELSE <<>>)
         \o filter_by_dict(Tail(d), filters)

----------------------------------------------------------------------------
(* sorted(items, key=sort_key) (lines 167, 229).                           *)
(* Keys are tuples of integers with one slot, outPos, holding the raw      *)
(* output: a str or None.  Tuples compare by their first differing slot;   *)
(* str < str is string order, None against str raises TypeError.           *)

StrLess(a, b) == OutputIndex(a) < OutputIndex(b)

RECURSIVE CompareFrom(_, _, _, _)
CompareFrom(a, b, i, outPos) ==
    IF i > Len(a) THEN "eq"
    ELSE IF a[i] = b[i] THEN CompareFrom(a, b, i + 1, outPos)
    ELSE IF i = outPos
         THEN IF a[i] = None \/ b[i] = None THEN "TypeError"
              ELSE IF StrLess(a[i], b[i]) THEN "lt" ELSE "gt"
         ELSE IF a[i] < b[i] THEN "lt" ELSE "gt"

\* The comparison a < b of two keys.
Compare(a, b, outPos) == CompareFrom(a, b, 1, outPos)

\* The order the comparisons that do not raise are part of: None before str.
RECURSIVE TotalLess(_, _, _, _)
TotalLess(a, b, i, outPos) ==
    IF i > Len(a) THEN FALSE
    ELSE IF a[i] = b[i] THEN TotalLess(a, b, i + 1, outPos)
    ELSE IF i = outPos
         THEN IF a[i] = None THEN TRUE
              ELSE IF b[i] = None THEN FALSE
              ELSE StrLess(a[i], b[i])
         ELSE a[i] < b[i]

\* Position of item i in the stable ascending order of keys.
RankOf(keys, i, outPos) ==
    1 + Cardinality({j \in 1..Len(keys) :
                        \/ TotalLess(keys[j], keys[i], 1, outPos)
                        \/ /\ ~TotalLess(keys[i], keys[j], 1, outPos)
                           /\ j < i})

Ordered(items, keys, outPos) ==
    [p \in 1..Len(items) |->
        items[CHOOSE i \in 1..Len(items) : RankOf(keys, i, outPos) = p]]

\* list.sort raises at the first comparison of two keys that raises.  Which
\* pairs it compares is its own business (it differs between CPython
\* releases), except that a comparison sort always compares two keys that end
\* up next to each other: if such a pair raises the sort raises, if no pair
\* raises it returns, otherwise either.  A result <<>> is the TypeError, <<l>>
\* the sorted list l.
sorted(items, keys, outPos) ==
    LET n == Len(items)
        order == Ordered(keys, keys, outPos)
        raises(a, b) == Compare(a, b, outPos) = "TypeError"
        must == \E p \in 1..(n - 1) : raises(order[p], order[p + 1])
        may == \E i, j \in 1..n : raises(keys[i], keys[j])
    IN  IF must THEN {<<>>}
        ELSE IF may THEN {<<>>, <<Ordered(items, keys, outPos)>>}
        ELSE {<<Ordered(items, keys, outPos)>>}

----------------------------------------------------------------------------
(* WindowHandler (lines 136-207).  A label is the sequence of the pieces   *)
(* the f-strings join.                                                     *)

\* {w["id"]: w for w in items}: a later entry replaces an earlier one.
IdMap(items) ==
    [id \in {items[i]["id"] : i \in 1..Len(items)} |->
        items[CHOOSE i \in 1..Len(items) :
                 /\ items[i]["id"] = id
                 /\ \A k \in (i + 1)..Len(items) : items[k]["id"] # id]]

\* Mutant of WindowSortKey: window_prio ignores select_focused.
WindowSortKey_FocusLast(n, select_focused, workspace_id_map, w) ==
    LET workspace == workspace_id_map[w["workspace_id"]]
        output == Get(workspace, "output")
        window_prio == IF w["is_focused"] THEN 0 ELSE MIN
        workspace_prio ==
            IF workspace["is_focused"] THEN MIN
            ELSE IF workspace["is_active"] THEN MIN + 1
            ELSE 0
        output_prio == IF output = focused_output(n) THEN MIN ELSE 0
    IN  <<workspace_prio, window_prio, output_prio, output, workspace["idx"], w["id"]>>

WindowSortKey(n, select_focused, workspace_id_map, w) ==
    LET workspace == workspace_id_map[w["workspace_id"]]
        output == Get(workspace, "output")
        window_prio ==
            IF select_focused
            THEN (IF w["is_focused"] THEN MIN ELSE 0)
            ELSE (IF w["is_focused"] THEN 0 ELSE MIN)
        workspace_prio ==
            IF workspace["is_focused"] THEN MIN
            ELSE IF workspace["is_active"] THEN MIN + 1
            ELSE 0
        output_prio == IF output = focused_output(n) THEN MIN ELSE 0
    IN  <<workspace_prio, window_prio, output_prio, output, workspace["idx"], w["id"]>>

WindowEntryToDmenu(workspace_id_map, multiple_workspaces, multiple_outputs, entry) ==
    LET title == (IF entry["is_focused"] THEN <<"* ">> ELSE <<>>) \o <<entry["title"]>>
        known == entry["workspace_id"] \in DOMAIN workspace_id_map
        workspace == workspace_id_map[entry["workspace_id"]]
        name == IF Get(workspace, "name") \notin {None, ""}
                THEN Get(workspace, "name")
                ELSE ToString(workspace["idx"])
        output == Get(workspace, "output")
        workspace_name ==
            <<name>> \o (IF multiple_outputs /\ output \notin {None, ""}
                         THEN <<" / ", output>> ELSE <<>>)
    IN  IF multiple_workspaces /\ known
        THEN title \o <<" (@">> \o workspace_name \o <<")">>
        ELSE title

\* WindowHandler.__init__: the set of its outcomes, <<>> for the TypeError
\* of the sort and <<h>> for the handler h.  self.niri is the variable niri,
\* which no step changes once a handler exists.
WindowHandler(n, select_focused, filters) ==
    LET workspace_id_map == IdMap(n.workspaces)
        windows0 == IF filters # <<>> THEN filter_by_dict(n.windows, filters)
                    ELSE n.windows
        keys == [i \in 1..Len(windows0) |->
                    WindowSortKey(n, select_focused, workspace_id_map, windows0[i])]
        Built(windows) ==
            LET multiple_workspaces ==
                    Cardinality({windows[i]["workspace_id"] : i \in 1..Len(windows)}) > 1
                multiple_outputs ==
                    Cardinality({Get(workspace_id_map[windows[i]["workspace_id"]], "output") :
                                    i \in 1..Len(windows)}) > 1
                label(w) == WindowEntryToDmenu(workspace_id_map, multiple_workspaces,
                                               multiple_outputs, w)
            IN  [cls |-> "WindowHandler",
                 windows |-> windows,
                 multiple_workspaces |-> multiple_workspaces,
                 multiple_outputs |-> multiple_outputs,
                 dmenu_prompt |-> "Window",
                 dmenu_entries |-> [i \in 1..Len(windows) |-> label(windows[i])],
                 dmenu_selected |->
                    IF select_focused /\ focused_window(n) # <<>>
                    THEN <<label(focused_window(n)[1])>>
                    ELSE <<>>]
    IN  {IF r = <<>> THEN <<>> ELSE <<Built(r[1])>> : r \in sorted(windows0, keys, 4)}

\* Mutant of PyIndex: the index taken as 1-based.
PyIndex_OneBased(list, idx) ==
    IF idx \in 1..Len(list) THEN <<list[idx]>> ELSE <<>>

\* list[idx]: <<>> is the IndexError.
PyIndex(list, idx) ==
    IF idx \in 0..(Len(list) - 1) THEN <<list[idx + 1]>>
    ELSE IF idx \in (-Len(list))..(-1) THEN <<list[Len(list) + idx + 1]>>
    ELSE <<>>

\* WindowHandler.select: the commands it runs; <<>> with raised for IndexError.
WindowSelect(h, idx) ==
    LET entry == PyIndex(h.windows, idx)
    IN  IF entry = <<>> THEN [raised |-> TRUE, run |-> <<>>]
        ELSE [raised |-> FALSE,
              run |-> << <<"focus-window", "--id", ToString(entry[1]["id"])>> >>]

----------------------------------------------------------------------------
(* WorkspaceHandler (lines 210-260).                                       *)

\* Mutant of WorkspaceSortKey: the focused workspace gets -2 whatever
\* select_focused is.
WorkspaceSortKey_AlwaysFirst(n, select_focused, w) ==
    LET focus_prio ==
            IF w["is_focused"] THEN -2
            ELSE IF w["is_active"] THEN -1
            ELSE 0
        output_prio == IF Get(w, "output") = focused_output(n) THEN -1 ELSE 0
    IN  <<focus_prio, output_prio, Get(w, "output"), w["idx"]>>

WorkspaceSortKey(n, select_focused, w) ==
    LET focus_prio ==
            IF w["is_focused"] THEN (IF select_focused THEN -2 ELSE MAX)
            ELSE IF w["is_active"] THEN -1
            ELSE 0
        output_prio == IF Get(w, "output") = focused_output(n) THEN -1 ELSE 0
    IN  <<focus_prio, output_prio, Get(w, "output"), w["idx"]>>

WorkspaceEntryToDmenu(window_id_map, multiple_outputs, entry) ==
    LET entry_name == IF Get(entry, "name") \notin {None, ""}
                      THEN Get(entry, "name")
                      ELSE ToString(entry["idx"])
        output == Get(entry, "output")
        title == IF entry["active_window_id"] \in DOMAIN window_id_map
                 THEN window_id_map[entry["active_window_id"]]["title"]
                 ELSE "(empty)"
    IN  (IF entry["is_focused"] THEN <<"* ">> ELSE <<>>)
        \o <<"@", entry_name>>
        \o (IF multiple_outputs /\ output \notin {None, ""}
            THEN <<" / ", output>> ELSE <<>>)
        \o <<" -- ", title>>

WorkspaceHandler(n, select_focused) ==
    LET window_id_map == IdMap(n.windows)
        keys == [i \in 1..Len(n.workspaces) |->
                    WorkspaceSortKey(n, select_focused, n.workspaces[i])]
        Built(workspaces) ==
            LET multiple_outputs ==
                    Cardinality({Get(workspaces[i], "output") :
                                    i \in 1..Len(workspaces)}) > 1
                label(w) == WorkspaceEntryToDmenu(window_id_map, multiple_outputs, w)
            IN  [cls |-> "WorkspaceHandler",
                 workspaces |-> workspaces,
                 multiple_outputs |-> multiple_outputs,
                 dmenu_prompt |-> "Workspace",
                 dmenu_entries |-> [i \in 1..Len(workspaces) |-> label(workspaces[i])],
                 dmenu_selected |->
                    IF select_focused /\ focused_workspace(n) # <<>>
                    THEN <<label(focused_workspace(n)[1])>>
                    ELSE <<>>]
    IN  {IF r = <<>> THEN <<>> ELSE <<Built(r[1])>> : r \in sorted(n.workspaces, keys, 3)}

WorkspaceSelect(h, idx) ==
    LET entry == PyIndex(h.workspaces, idx)
        output == IF entry = <<>> THEN None ELSE Get(entry[1], "output")
    IN  IF entry = <<>> THEN [raised |-> TRUE, run |-> <<>>]
        ELSE [raised |-> FALSE,
              run |-> (IF output \notin {None, ""}
                       THEN << <<"focus-monitor", output>> >> ELSE <<>>)
                      \o << <<"focus-workspace", ToString(entry[1]["idx"])>> >>]

----------------------------------------------------------------------------
(* The run.                                                                *)

NoHandler == [cls |-> "None"]
NoFuzzel == [invoked |-> FALSE]
Running == [how |-> "running", code |-> 0, stderr |-> ""]
\* An uncaught exception: the interpreter prints the traceback and exits 1.
Traceback(what) == [how |-> "traceback", code |-> 1, stderr |-> what]
SysExit(code, message) == [how |-> "sys.exit", code |-> code, stderr |-> message]
Returned == [how |-> "returned", code |-> 0, stderr |-> ""]

\* Filter lists handed to a window session.
SessionFilters ==
    {<<>>,
     <<DictKeyMatcher("app_id", PyStr("foo"))>>,
     <<DictKeyAnyMatcher("workspace_id", <<PyInt(WorkspaceIdOf("DP-1", 1)),
                                           PyInt(WorkspaceIdOf(None, 1))>>)>>,
     <<DictKeyMatcher("app_id", PyStr("foo")),
       DictKeyAnyMatcher("workspace_id", <<PyInt(WorkspaceIdOf("DP-1", 1)),
                                           PyInt(WorkspaceIdOf(None, 1))>>)>>,
     <<DictKeyAnyMatcher("workspace_id", <<PyInt(WorkspaceIdOf("DP-1", 1)),
                                           PyInt(WorkspaceIdOf(None, 1))>>),
       DictKeyMatcher("app_id", PyStr("foo"))>>}

SessionArgs(windows, select_focused) ==
    [windows |-> windows, select_focused |-> select_focused,
     app_id |-> None, window_matching |-> None, workspace |-> None]

\* Line 372: handler = WindowHandler(niri, args.select_focused, window_filters)
NewWindowHandler ==
    /\ pc = "handler"
    /\ args.windows
    /\ \E r \in WindowHandler(niri, args.select_focused, window_filters) :
          IF r = <<>>
          THEN /\ pc' = "end"
               /\ exit' = Traceback("TypeError")
               /\ UNCHANGED handler
          ELSE /\ pc' = "fuzzel"
               /\ handler' = r[1]
               /\ UNCHANGED exit
    /\ UNCHANGED <<args, source, niri, window_filters, fuzzel, calls>>

\* Line 374: handler = WorkspaceHandler(niri, args.select_focused)
NewWorkspaceHandler ==
    /\ pc = "handler"
    /\ ~args.windows
    /\ \E r \in WorkspaceHandler(niri, args.select_focused) :
          IF r = <<>>
          THEN /\ pc' = "end"
               /\ exit' = Traceback("TypeError")
               /\ UNCHANGED handler
          ELSE /\ pc' = "fuzzel"
               /\ handler' = r[1]
               /\ UNCHANGED exit
    /\ UNCHANGED <<args, source, niri, window_filters, fuzzel, calls>>

\* What fuzzel is given (lines 381-402): the entries on stdin and, when
\* dmenu_selected is truthy, --select with it.
FuzzelGiven ==
    [invoked |-> TRUE,
     entries |-> handler.dmenu_entries,
     select |-> IF handler.dmenu_selected # <<>> /\ handler.dmenu_selected[1] # <<>>
                THEN handler.dmenu_selected ELSE <<>>]

\* int(text) for the text of an index.
ParseInt(text, n) == CHOOSE i \in (-1)..n : ToString(i) = text

\* Lines 401-414, fuzzel exits 0 and prints an index: that of an entry, -1
\* for typed text that is no entry, or (a picker at fault) one past the end.
FuzzelPicks ==
    /\ pc = "fuzzel"
    /\ \E out \in {ToString(i) : i \in (-1)..Len(handler.dmenu_entries)} :
          fuzzel' = FuzzelGiven @@
                    [returncode |-> 0, out |-> out,
                     selected_index |-> ParseInt(out, Len(handler.dmenu_entries))]
    /\ pc' = "select"
    /\ UNCHANGED <<args, source, niri, window_filters, handler, calls, exit>>

\* Lines 404-412, fuzzel exits non-zero: dismissed by the user (status 2, no
\* output) or failed (another status, with output).
FuzzelFails ==
    /\ pc = "fuzzel"
    /\ \E r \in {[returncode |-> 2, out |-> ""],
                 [returncode |-> 1, out |-> "fuzzel: error"]} :
          /\ fuzzel' = FuzzelGiven @@ r @@ [selected_index |-> 0]
          /\ exit' = SysExit(2, IF r.out # "" THEN r.out ELSE "")
    /\ pc' = "end"
    /\ UNCHANGED <<args, source, niri, window_filters, handler, calls>>

\* Line 416: handler.select(selected_index)
Select ==
    /\ pc = "select"
    /\ LET r == IF handler.cls = "WindowHandler"
                THEN WindowSelect(handler, fuzzel.selected_index)
                ELSE WorkspaceSelect(handler, fuzzel.selected_index)
       IN  /\ calls' = calls \o r.run
           /\ exit' = IF r.raised THEN Traceback("IndexError") ELSE Returned
    /\ pc' = "end"
    /\ UNCHANGED <<args, source, niri, window_filters, handler, fuzzel>>

----------------------------------------------------------------------------
(* main(), lines 312-377: the command line becomes window filters.         *)

\* json.loads of the texts the model offers for --window-matching and
\* --workspace: a mapping (its items, in order), another JSON value, or the
\* ValueError of text that is not JSON.
JsonLoads(arg) ==
    CASE arg = "{\"app_id\": \"bar\"}" ->
            [is |-> "Mapping", items |-> << <<"app_id", PyStr("bar")>> >>]
      [] arg = "{\"urgent\": null}" ->
            [is |-> "Mapping", items |-> << <<"urgent", PyNone>> >>]
      [] arg = "{\"name\": \"web\"}" ->
            [is |-> "Mapping", items |-> << <<"name", PyStr("web")>> >>]
      [] arg = "{\"output\": \"DP-9\"}" ->
            [is |-> "Mapping", items |-> << <<"output", PyStr("DP-9")>> >>]
      [] arg = "{}" -> [is |-> "Mapping", items |-> <<>>]
      [] arg = "[\"bar\"]" -> [is |-> "list", items |-> <<>>]
      [] OTHER -> [is |-> "ValueError", items |-> <<>>]

\* <<>> is None, <<items>> the parsed mapping.
_parse_arg_as_json_dict(arg) ==
    IF JsonLoads(arg).is = "Mapping" THEN <<JsonLoads(arg).items>> ELSE <<>>

\* [DictKeyMatcher(k, v) for k, v in mapping.items()]
MatchersOf(items) == [i \in 1..Len(items) |-> DictKeyMatcher(items[i][1], items[i][2])]

\* A guard `if (m := _parse_arg_as_json_dict(arg))`: a mapping with an item.
ParsesToItems(arg) ==
    _parse_arg_as_json_dict(arg) # <<>> /\ _parse_arg_as_json_dict(arg)[1] # <<>>

\* Lines 320-331: the snapshot and the filters after `match args.app_id`.
AfterAppId(a, n) ==
    IF a.app_id = None THEN [niri |-> n, window_filters |-> <<>>]
    ELSE IF a.app_id = "@focused"
    THEN IF focused_window(n) # <<>>
         THEN [niri |-> n,
               window_filters |->
                  <<DictKeyMatcher("app_id", PyStr(focused_window(n)[1]["app_id"]))>>]
         ELSE [niri |-> NiriState(<<>>, <<>>), window_filters |-> <<>>]
    ELSE [niri |-> n, window_filters |-> <<DictKeyMatcher("app_id", PyStr(a.app_id))>>]

\* Lines 333-342: <<>> is the "Invalid match rule for window" exit.
AfterWindowMatching(a, st) ==
    IF a.window_matching = None THEN <<st>>
    ELSE IF ParsesToItems(a.window_matching)
    THEN <<[st EXCEPT !.window_filters =
               @ \o MatchersOf(_parse_arg_as_json_dict(a.window_matching)[1])]>>
    ELSE <<>>

\* Lines 344-360: the workspace matchers; <<>> is the "Invalid match rule for
\* workspace" exit, <<m>> the list m.
WorkspaceMatchers(a, n) ==
    IF a.workspace = None THEN << <<>> >>
    ELSE IF a.workspace = "@focused"
    THEN << <<DictKeyMatcher("is_focused", PyBool(TRUE))>> >>
    ELSE IF a.workspace = "@active"
    THEN << <<DictKeyMatcher("is_active", PyBool(TRUE))>> >>
    ELSE IF a.workspace = "@output" /\ focused_output(n) \notin {None, ""}
    THEN << <<DictKeyAnyMatcher("output", <<PyStr(focused_output(n))>>)>> >>
    ELSE IF ParsesToItems(a.workspace)
    THEN <<MatchersOf(_parse_arg_as_json_dict(a.workspace)[1])>>
    ELSE <<>>

\* Lines 362-364: the ids of the workspaces the matchers keep, in order.
MatchedWorkspaceIds(n, workspace_matchers) ==
    LET kept == filter_by_dict(n.workspaces, workspace_matchers)
    IN  [i \in 1..Len(kept) |-> PyInt(kept[i]["id"])]

WindowMatchingArgs == {None, "{\"app_id\": \"bar\"}", "{\"urgent\": null}", "bar"}

WorkspaceArgs ==
    {None, "@focused", "@active", "@output", "{\"name\": \"web\"}",
     "{\"output\": \"DP-9\"}", "[\"bar\"]"}

ArgSets ==
    [windows : {TRUE}, select_focused : BOOLEAN,
     app_id : {None, "@focused", "foo"},
     window_matching : WindowMatchingArgs,
     workspace : WorkspaceArgs]
    \cup {SessionArgs(FALSE, sf) : sf \in BOOLEAN}

\* `niri msg --json` exits non-zero: the answer of a compositor out of reach.
Unreachable == [returncode |-> 1, windows |-> <<>>, workspaces |-> <<>>]

Answer(snapshot) == snapshot @@ [returncode |-> 0]

\* What the compositor answers in a run of main().
Sources == {Answer(s) : s \in WindowSnapshots} \cup {Unreachable}

\* Line 314 with lines 24-35: niri = NiriState.new()
NiriStateNew ==
    /\ pc = "NiriState.new"
    /\ source.returncode = 0
    /\ niri' = NiriState(source.windows, source.workspaces)
    /\ pc' = IF args.windows THEN "filters" ELSE "handler"
    /\ UNCHANGED <<args, source, window_filters, handler, fuzzel, calls, exit>>

\* Lines 27-28: raise Exception("niri returned non-zero status"), caught
\* nowhere.
NiriFails ==
    /\ pc = "NiriState.new"
    /\ source.returncode # 0
    /\ pc' = "end"
    /\ exit' = Traceback("Exception")
    /\ UNCHANGED <<args, source, niri, window_filters, handler, fuzzel, calls>>

\* Lines 340-342.
InvalidWindowRule ==
    /\ pc = "filters"
    /\ AfterWindowMatching(args, AfterAppId(args, niri)) = <<>>
    /\ pc' = "end"
    /\ exit' = SysExit(1, "Invalid match rule for window")
    /\ UNCHANGED <<args, source, niri, window_filters, handler, fuzzel, calls>>

\* Lines 358-360.
InvalidWorkspaceRule ==
    /\ pc = "filters"
    /\ AfterWindowMatching(args, AfterAppId(args, niri)) # <<>>
    /\ WorkspaceMatchers(args, AfterAppId(args, niri).niri) = <<>>
    /\ pc' = "end"
    /\ exit' = SysExit(1, "Invalid match rule for workspace")
    /\ UNCHANGED <<args, source, niri, window_filters, handler, fuzzel, calls>>

\* Lines 362-368.
NoWorkspaceFound ==
    /\ pc = "filters"
    /\ AfterWindowMatching(args, AfterAppId(args, niri)) # <<>>
    /\ LET n == AfterAppId(args, niri).niri
           m == WorkspaceMatchers(args, n)
       IN  /\ m # <<>>
           /\ m[1] # <<>>
           /\ MatchedWorkspaceIds(n, m[1]) = <<>>
    /\ pc' = "end"
    /\ exit' = SysExit(1, "Could not found workspaces by provided rules")
    /\ UNCHANGED <<args, source, niri, window_filters, handler, fuzzel, calls>>

\* Lines 316-370 running through: niri and window_filters as line 372 finds
\* them.
FiltersResolved ==
    /\ pc = "filters"
    /\ AfterWindowMatching(args, AfterAppId(args, niri)) # <<>>
    /\ LET st == AfterWindowMatching(args, AfterAppId(args, niri))[1]
           m == WorkspaceMatchers(args, st.niri)
       IN  /\ m # <<>>
           /\ m[1] # <<>> => MatchedWorkspaceIds(st.niri, m[1]) # <<>>
           /\ niri' = st.niri
           /\ window_filters' =
                IF m[1] # <<>>
                THEN st.window_filters \o
                     <<DictKeyAnyMatcher("workspace_id", MatchedWorkspaceIds(st.niri, m[1]))>>
                ELSE st.window_filters
    /\ pc' = "handler"
    /\ UNCHANGED <<args, source, handler, fuzzel, calls, exit>>

Init ==
    /\ args \in ArgSets
    /\ source \in Sources
    /\ niri = NiriState(<<>>, <<>>)
    /\ window_filters = <<>>
    /\ handler = NoHandler
    /\ fuzzel = NoFuzzel
    /\ calls = <<>>
    /\ pc = "NiriState.new"
    /\ exit = Running

Next ==
    \/ NiriStateNew
    \/ NiriFails
    \/ InvalidWindowRule
    \/ InvalidWorkspaceRule
    \/ NoWorkspaceFound
    \/ FiltersResolved
    \/ NewWindowHandler
    \/ NewWorkspaceHandler
    \/ FuzzelPicks
    \/ FuzzelFails
    \/ Select

Spec == Init /\ [][Next]_vars

----------------------------------------------------------------------------
(* SessionSpec: a handler built from constructor arguments drawn directly. *)

SessionInit ==
    /\ \E select_focused \in BOOLEAN :
          \/ /\ args = SessionArgs(TRUE, select_focused)
             /\ source \in WindowSnapshots
             /\ window_filters \in SessionFilters
          \/ /\ args = SessionArgs(FALSE, select_focused)
             /\ source \in WorkspaceSnapshots
             /\ window_filters = <<>>
    /\ niri = source
    /\ handler = NoHandler
    /\ fuzzel = NoFuzzel
    /\ calls = <<>>
    /\ pc = "handler"
    /\ exit = Running

SessionNext ==
    \/ NewWindowHandler
    \/ NewWorkspaceHandler
    \/ FuzzelPicks
    \/ FuzzelFails
    \/ Select

SessionSpec == SessionInit /\ [][SessionNext]_vars

----------------------------------------------------------------------------
(* Claims.                                                                 *)

Built == handler.cls # "None"
WindowSession == handler.cls = "WindowHandler"
WorkspaceSession == handler.cls = "WorkspaceHandler"
\* The ranked sequence of the session.
Ranked == IF WindowSession THEN handler.windows ELSE handler.workspaces
Selected == pc = "end" /\ fuzzel.invoked /\ fuzzel.returncode = 0
InRange == fuzzel.selected_index \in 0..(Len(Ranked) - 1)
PassesFilters(w) == \A k \in 1..Len(window_filters) : matches(window_filters[k], w)
\* Rank of a workspace in the first ranking field: focused, active, other.
Tier(ws) == IF ws["is_focused"] THEN 0 ELSE IF ws["is_active"] THEN 1 ELSE 2
WorkspaceOfWindow(w) ==
    CHOOSE ws \in Range(niri.workspaces) : ws["id"] = w["workspace_id"]

\* C1: select(i), i the 0-based position of record X of the ranked sequence,
\* issues in a window session exactly one call, focus-window --id X.id (the
\* id of no other record), and in a workspace session focus-workspace X.idx,
\* preceded by focus-monitor X.output exactly when X has an output.
C1_SelectRoundTrip ==
    (Selected /\ InRange) =>
        LET X == Ranked[fuzzel.selected_index + 1]
        IN  /\ exit.how = "returned"
            /\ WindowSession =>
                 /\ calls = << <<"focus-window", "--id", ToString(X["id"])>> >>
                 /\ \A i \in 1..Len(Ranked) :
                       i # fuzzel.selected_index + 1 =>
                          ToString(Ranked[i]["id"]) # calls[1][3]
            /\ WorkspaceSession =>
                 calls = (IF "output" \in DOMAIN X
                          THEN << <<"focus-monitor", X["output"]>> >> ELSE <<>>)
                         \o << <<"focus-workspace", ToString(X["idx"])>> >>

\* C1 witness: a workspace session resolved the second entry, a workspace
\* with an output, with focus-monitor first and focus-workspace second.
C1_Witness ==
    /\ Selected /\ InRange /\ WorkspaceSession
    /\ fuzzel.selected_index = 1
    /\ Len(calls) = 2
    /\ calls[1][1] = "focus-monitor"
    /\ calls[2] = <<"focus-workspace", "2">>

\* C2 as claimed: with select_focused, a focused window that passes the
\* filters is the first entry of the window session's ranked sequence.
C2_FocusedWindowFirst ==
    (WindowSession /\ args.select_focused) =>
        \A w \in Range(niri.windows) :
            (w["is_focused"] /\ PassesFilters(w)) => handler.windows[1] = w

\* C2 amended: with select_focused, a focused window that passes the filters
\* is the first entry provided no other window passing the filters sits on a
\* workspace of a strictly earlier tier (focused, then active, then other).
C2_FocusedWindowFirstInTier ==
    (WindowSession /\ args.select_focused) =>
        \A w \in Range(niri.windows) :
            (/\ w["is_focused"]
             /\ PassesFilters(w)
             /\ \A v \in Range(niri.windows) :
                   PassesFilters(v) =>
                      Tier(WorkspaceOfWindow(w)) <= Tier(WorkspaceOfWindow(v)))
            => handler.windows[1] = w

\* C2 witness: the focused window leads a session in which another window of
\* its own workspace and a window of another workspace are candidates too.
C2_Witness ==
    /\ WindowSession /\ args.select_focused
    /\ Len(handler.windows) >= 2
    /\ handler.windows[1]["is_focused"]
    /\ handler.windows[1]["id"] > handler.windows[2]["id"]
    /\ handler.windows[1]["workspace_id"] = handler.windows[2]["workspace_id"]
    /\ window_filters # <<>>

\* C3: in a workspace session over a snapshot with a focused workspace, that
\* workspace is the first entry with select_focused and the last without.
C3_FocusedWorkspaceFirstOrLast ==
    WorkspaceSession =>
        \A w \in Range(niri.workspaces) :
            w["is_focused"] =>
                IF args.select_focused
                THEN handler.workspaces[1] = w
                ELSE handler.workspaces[Len(handler.workspaces)] = w

\* C3 witness: without select_focused the focused workspace, first in the
\* snapshot, ends last of at least three.
C3_Witness ==
    /\ WorkspaceSession /\ ~args.select_focused
    /\ Len(handler.workspaces) >= 3
    /\ niri.workspaces[1]["is_focused"]
    /\ handler.workspaces[Len(handler.workspaces)] = niri.workspaces[1]

\* C4: filter_by_dict(R, P) is the subsequence of R, in R's order, of the
\* records that satisfy every predicate of P; it is the same for P reversed,
\* it is R for the empty P, and it is what a window session ranks.
C4_FilterConjunction ==
    LET R == niri.windows
        P == window_filters
        Reverse(q) == [i \in 1..Len(q) |-> q[Len(q) + 1 - i]]
        Keeps(r) == \A k \in 1..Len(P) : matches(P[k], r)
    IN  /\ filter_by_dict(R, P) = SelectSeq(R, Keeps)
        /\ filter_by_dict(R, Reverse(P)) = filter_by_dict(R, P)
        /\ filter_by_dict(R, <<>>) = R
        /\ WindowSession => Range(handler.windows) = Range(SelectSeq(R, Keeps))

\* C4 witness: a window session under two predicates that keeps one window
\* and drops another, the dropped one failing only one of the predicates.
C4_Witness ==
    /\ WindowSession
    /\ Len(window_filters) = 2
    /\ Len(handler.windows) >= 1
    /\ \E w \in Range(niri.windows) :
          /\ w \notin Range(handler.windows)
          /\ \E k \in 1..2 : matches(window_filters[k], w)

\* C5 as claimed: an Equals predicate of the window filters matches exactly
\* the windows that have the field and hold the value in it.
C5_EqualsNeedsField ==
    pc = "handler" =>
        \A k \in 1..Len(window_filters) : \A w \in Range(niri.windows) :
            window_filters[k].cls = "DictKeyMatcher" =>
                (matches(window_filters[k], w) <=>
                    /\ window_filters[k].key \in DOMAIN w
                    /\ PyGet(w, window_filters[k].key) = window_filters[k].value)

\* C6 as claimed: an index outside 0..n-1 handed to select ends in the
\* out-of-range error and issues no call.
C6_SelectBoundsChecked ==
    (Selected /\ ~InRange) => (exit = Traceback("IndexError") /\ calls = <<>>)

\* The error kind a finished run falls under (spec section 7).
ErrorKind ==
    CASE exit.how = "traceback" /\ exit.stderr = "Exception" -> "StartupFailure"
      [] exit.how = "traceback" /\ exit.stderr = "IndexError" -> "SelectionOutOfRange"
      [] exit.how = "traceback" -> "Uncaught"
      [] exit.how = "sys.exit" /\ ~fuzzel.invoked
            /\ exit.stderr = "Could not found workspaces by provided rules" ->
            "EmptyResolution"
      [] exit.how = "sys.exit" /\ ~fuzzel.invoked -> "InvalidFilterExpression"
      [] exit.how = "sys.exit" /\ fuzzel.out = "" -> "UserCancelled"
      [] exit.how = "sys.exit" -> "PickerFailure"
      [] OTHER -> "none"

\* The exit status the code gives each kind: sys.exit(1) at lines 342, 360
\* and 368, sys.exit(2) at line 412, the interpreter's 1 for an uncaught
\* exception.
ExitCodeOf ==
    [StartupFailure |-> Traceback("Exception").code,
     InvalidFilterExpression |-> 1,
     EmptyResolution |-> 1,
     UserCancelled |-> 2,
     PickerFailure |-> 2,
     SelectionOutOfRange |-> Traceback("IndexError").code]

\* C7 as claimed: a run that ends in a fatal condition ends by a clean exit,
\* never an uncaught exception, with a status no other kind ends with.
C7_ExitCodePerKind ==
    (pc = "end" /\ ErrorKind # "none") =>
        /\ exit.how = "sys.exit"
        /\ exit.code = ExitCodeOf[ErrorKind]
        /\ \A k \in DOMAIN ExitCodeOf : k # ErrorKind => ExitCodeOf[k] # exit.code

\* Arguments that are well-formed, with a workspace selector (if any) that
\* the snapshot the compositor answered with has a workspace for.
WellFormedArgs ==
    /\ args.window_matching # None => ParsesToItems(args.window_matching)
    /\ args.workspace # None =>
          /\ WorkspaceMatchers(args, source) # <<>>
          /\ MatchedWorkspaceIds(source, WorkspaceMatchers(args, source)[1]) # <<>>

\* C8 as claimed: in windows mode, --app-id @focused over a snapshot without
\* a focused window reaches the picker, with an empty list of entries.
C8_FocusedAppIdReachesPicker ==
    (/\ pc = "end"
     /\ args.windows
     /\ args.app_id = "@focused"
     /\ source.returncode = 0
     /\ focused_window(source) = <<>>
     /\ WellFormedArgs)
    => (fuzzel.invoked /\ fuzzel.entries = <<>>)

\* C9 as claimed: ranking never fails, and of two neighbours of the ranked
\* sequence that agree on the fields before the raw output, one without an
\* output is not placed after one with an output.
C9_AbsentOutputRanks ==
    /\ exit # Traceback("TypeError")
    /\ WorkspaceSession =>
          \A i \in 1..(Len(handler.workspaces) - 1) :
             LET a == WorkspaceSortKey(niri, args.select_focused, handler.workspaces[i])
                 b == WorkspaceSortKey(niri, args.select_focused, handler.workspaces[i + 1])
             IN  (a[1] = b[1] /\ a[2] = b[2]) => ~(a[3] # None /\ b[3] = None)
    /\ WindowSession =>
          \A i \in 1..(Len(handler.windows) - 1) :
             LET a == WindowSortKey(niri, args.select_focused, IdMap(niri.workspaces),
                                    handler.windows[i])
                 b == WindowSortKey(niri, args.select_focused, IdMap(niri.workspaces),
                                    handler.windows[i + 1])
             IN  (a[1] = b[1] /\ a[2] = b[2] /\ a[3] = b[3]) =>
                    ~(a[4] # None /\ b[4] = None)

\* C10 as claimed: a pre-selected label is the label, in the ordered labels,
\* of the focused record at its position in the ranked sequence.
C10_SelectedIsCandidate ==
    (Built /\ handler.dmenu_selected # <<>>) =>
        \E i \in 1..Len(Ranked) :
            /\ Ranked[i]["is_focused"]
            /\ handler.dmenu_entries[i] = handler.dmenu_selected[1]

\* C10 amended: the same, in every workspace session, and in every window
\* session whose focused window passes the window filters.
C10_SelectedIsCandidateIfKept ==
    (/\ Built
     /\ handler.dmenu_selected # <<>>
     /\ WindowSession =>
           \E w \in Range(niri.windows) : w["is_focused"] /\ PassesFilters(w))
    => \E i \in 1..Len(Ranked) :
            /\ Ranked[i]["is_focused"]
            /\ handler.dmenu_entries[i] = handler.dmenu_selected[1]

\* C10 witness: a filtered window session whose pre-selected label is the
\* label of its second entry, annotated with workspace and output.
C10_Witness ==
    /\ WindowSession
    /\ window_filters # <<>>
    /\ handler.dmenu_selected # <<>>
    /\ Len(handler.dmenu_entries) >= 2
    /\ handler.dmenu_entries[2] = handler.dmenu_selected[1]
    /\ Len(handler.dmenu_selected[1]) > 4

====
